---- MODULE Spec2Model ----
(***************************************************************************)
(* Chord progression backend: ChordEngine (chord_engine.py), TimingEngine  *)
(* (timing_engine.py), SynthEngine (synth_engine.py) and the playback      *)
(* endpoints of main.py (/play, /stop, /bpm, shutdown) together with the   *)
(* playback_worker threads they launch.                                    *)
(*                                                                         *)
(* In the playback model times are exact integers in milliseconds; the     *)
(* tempi it feeds in divide 60000, so 60.0 / bpm is represented without    *)
(* rounding.  The TimingEngine on its own is modelled in binary64 floats.  *)
(***************************************************************************)
EXTENDS Integers, Sequences, FiniteSets, TLC

(* ------------------------------ bounds -------------------------------- *)

\* playback_worker threads the model lets /play launch in one run
MaxWorkers == 2
\* passes of `while playback_state["is_playing"]` one worker may begin
MaxPasses == 2
\* chords in a progression given to the TimingEngine on its own
MaxEntries == 2

Workers == 1..MaxWorkers
\* request slots: handler invocations that can be in flight
Reqs == {"r1", "r2"}
\* the slot of the event loop, which runs one handler at a time
EventLoop == "r1"
None == "None"

(* --------------------------- chord_engine.py --------------------------- *)

CHORD_TYPES ==
    ("Major" :> <<0, 4, 7>>) @@ ("Minor" :> <<0, 3, 7>>) @@
    ("Dim" :> <<0, 3, 6>>) @@ ("Aug" :> <<0, 4, 8>>) @@
    ("Sus2" :> <<0, 2, 7>>) @@ ("Sus4" :> <<0, 5, 7>>) @@
    ("7" :> <<0, 4, 7, 10>>) @@ ("Maj7" :> <<0, 4, 7, 11>>) @@
    ("Min7" :> <<0, 3, 7, 10>>) @@ ("Dim7" :> <<0, 3, 6, 9>>) @@
    ("Min7b5" :> <<0, 3, 6, 10>>) @@ ("Aug7" :> <<0, 4, 8, 10>>) @@
    ("MinMaj7" :> <<0, 3, 7, 11>>) @@
    ("9" :> <<0, 4, 7, 10, 14>>) @@ ("Maj9" :> <<0, 4, 7, 11, 14>>) @@
    ("Min9" :> <<0, 3, 7, 10, 14>>) @@ ("Add9" :> <<0, 4, 7, 14>>) @@
    ("11" :> <<0, 4, 7, 10, 14, 17>>) @@ ("Maj11" :> <<0, 4, 7, 11, 14, 17>>) @@
    ("Min11" :> <<0, 3, 7, 10, 14, 17>>) @@
    ("13" :> <<0, 4, 7, 10, 14, 21>>) @@ ("Maj13" :> <<0, 4, 7, 11, 14, 21>>) @@
    ("Min13" :> <<0, 3, 7, 10, 14, 21>>) @@
    ("6" :> <<0, 4, 7, 9>>) @@ ("Min6" :> <<0, 3, 7, 9>>) @@
    ("6/9" :> <<0, 4, 7, 9, 14>>) @@
    ("7b5" :> <<0, 4, 6, 10>>) @@ ("7#5" :> <<0, 4, 8, 10>>) @@
    ("7b9" :> <<0, 4, 7, 10, 13>>) @@ ("7#9" :> <<0, 4, 7, 10, 15>>) @@
    ("5" :> <<0, 7>>)

NOTE_VALUES ==
    ("C" :> 0) @@ ("C#" :> 1) @@ ("Db" :> 1) @@
    ("D" :> 2) @@ ("D#" :> 3) @@ ("Eb" :> 3) @@
    ("E" :> 4) @@
    ("F" :> 5) @@ ("F#" :> 6) @@ ("Gb" :> 6) @@
    ("G" :> 7) @@ ("G#" :> 8) @@ ("Ab" :> 8) @@
    ("A" :> 9) @@ ("A#" :> 10) @@ ("Bb" :> 10) @@
    ("B" :> 11)

\* ChordEngine() is built with the default base_octave
base_octave == 4

\* generate_chord raises ValueError for these arguments
ChordRaises(root, chord_type) ==
    \/ chord_type \notin DOMAIN CHORD_TYPES
    \/ root \notin DOMAIN NOTE_VALUES

\* (mutation: the octave of the docstring, where C with base octave 4 is 60)
generate_chordMutant(root, chord_type) ==
    LET base_midi == ((base_octave + 1) * 12) + NOTE_VALUES[root]
        chord_formula == CHORD_TYPES[chord_type]
    IN  [n \in 1..Len(chord_formula) |-> base_midi + chord_formula[n]]
\* generate_chord's return value when it does not raise
generate_chord(root, chord_type) ==
    LET base_midi == (base_octave * 12) + NOTE_VALUES[root]
        chord_formula == CHORD_TYPES[chord_type]
    IN  [n \in 1..Len(chord_formula) |-> base_midi + chord_formula[n]]

\* chord_to_note_names: the name of the pitch class, then the octave number
chord_to_note_names(midi_notes) ==
    LET note_names == <<"C", "C#", "D", "D#", "E", "F", "F#", "G", "G#", "A",
                        "A#", "B">>
    IN  [n \in 1..Len(midi_notes) |->
            LET octave == (midi_notes[n] \div 12) - 1
                note_index == midi_notes[n] % 12
            IN  note_names[note_index + 1] \o ToString(octave)]

\* get_available_roots: the twelve roots spelled with sharps
get_available_roots ==
    {"C", "C#", "D", "D#", "E", "F", "F#", "G", "G#", "A", "A#", "B"}

(* --------------------------- timing_engine.py -------------------------- *)

\* (mutation: the derived value is not recomputed from the new bpm)
SecondsPerBeatMutant(value) == 60000 \div 120
\* 60.0 / bpm, in milliseconds
SecondsPerBeat(value) == 60000 \div value

\* the bpm setter's range check
BpmInRange(value) == 30 <= value /\ value <= 300

\* beats_to_seconds with the _seconds_per_beat read at the call
beats_to_seconds(beats, spb) == beats * spb

(* ------------- timing_engine.py in double-precision floats ------------- *)

\* A float is zero or m * 2^e: m a sequence of Precision bits, the most
\* significant first and set; sums, products and quotients are rounded to
\* the nearest float, ties to the even one, as IEEE 754 binary64 does.
Precision == 53

Zeros(k) == [n \in 1..k |-> 0]

RECURSIVE NatBits(_)
\* the bits of a natural number
NatBits(n) == IF n = 0 THEN << >> ELSE Append(NatBits(n \div 2), n % 2)

\* without the leading zeros
Strip(b) ==
    IF \A n \in 1..Len(b) : b[n] = 0 THEN << >>
    ELSE SubSeq(b, CHOOSE n \in 1..Len(b) :
                       b[n] = 1 /\ \A j \in 1..(n - 1) : b[j] = 0,
                Len(b))

RECURSIVE MulRange(_, _, _, _, _)
\* bits lo..hi of b * k + carry, and the carry out of them
MulRange(b, k, lo, hi, carry) ==
    IF lo = hi
    THEN LET t == b[lo] * k + carry IN <<(<<t % 2>>), t \div 2>>
    ELSE LET mid == (lo + hi) \div 2
             low == MulRange(b, k, mid + 1, hi, carry)
             high == MulRange(b, k, lo, mid, low[2])
         IN  IF low[2] >= 0 THEN <<high[1] \o low[1], high[2]>> ELSE << >>

\* the bits of b * k
MulBits(b, k) ==
    IF b = << >> THEN << >>
    ELSE LET r == MulRange(b, k, 1, Len(b), 0) IN NatBits(r[2]) \o r[1]

RECURSIVE AddRange(_, _, _, _, _)
\* bits lo..hi of a + b + carry, and the carry out of them
AddRange(a, b, lo, hi, carry) ==
    IF lo = hi
    THEN LET t == a[lo] + b[lo] + carry IN <<(<<t % 2>>), t \div 2>>
    ELSE LET mid == (lo + hi) \div 2
             low == AddRange(a, b, mid + 1, hi, carry)
             high == AddRange(a, b, lo, mid, low[2])
         IN  IF low[2] >= 0 THEN <<high[1] \o low[1], high[2]>> ELSE << >>

\* the bits of a + b, for a and b not both empty
AddBits(a, b) ==
    LET len == IF Len(a) > Len(b) THEN Len(a) ELSE Len(b)
        r == AddRange(Zeros(len - Len(a)) \o a, Zeros(len - Len(b)) \o b,
                      1, len, 0)
    IN  NatBits(r[2]) \o r[1]

FloatZero == [m |-> << >>, e |-> 0]

\* the float nearest to bits * 2^e
FloatRound(bits, e) ==
    LET b == Strip(bits)
        len == Len(b)
    IN  IF len = 0 THEN FloatZero
        ELSE IF len <= Precision
        THEN [m |-> b \o Zeros(Precision - len), e |-> e - (Precision - len)]
        ELSE LET kept == SubSeq(b, 1, Precision)
                 sticky == \E n \in (Precision + 2)..len : b[n] = 1
                 up == b[Precision + 1] = 1 /\ (sticky \/ kept[Precision] = 1)
                 m2 == IF up THEN AddBits(kept, <<1>>) ELSE kept
             IN  [m |-> SubSeq(m2, 1, Precision),
                  e |-> e + (len - Precision) + (Len(m2) - Precision)]

RECURSIVE FracRange(_, _, _)
\* the first k bits of r / b after the point (r < b), and the remainder
FracRange(r, b, k) ==
    IF k = 1 THEN <<(<<(2 * r) \div b>>), (2 * r) % b>>
    ELSE LET high == FracRange(r, b, k \div 2)
             low == FracRange(high[2], b, k - (k \div 2))
         IN  IF high[2] >= 0 THEN <<high[1] \o low[1], low[2]>> ELSE << >>

\* a / b for integers a >= 0 and b > 0, with a / b >= 1/8: the quotient to
\* Precision + 7 bits after the point and one more bit for what is left
FloatDiv(a, b) ==
    LET q == FracRange(a % b, b, Precision + 7)
    IN  FloatRound(NatBits(a \div b) \o q[1] \o <<IF q[2] = 0 THEN 0 ELSE 1>>,
                   -(Precision + 8))

\* k * x for an integer k >= 0
FloatMulInt(k, x) == FloatRound(MulBits(x.m, k), x.e)

FloatAdd(x, y) ==
    IF x = FloatZero THEN y
    ELSE IF y = FloatZero THEN x
    ELSE LET e == IF x.e < y.e THEN x.e ELSE y.e
         IN  FloatRound(AddBits(x.m \o Zeros(x.e - e), y.m \o Zeros(y.e - e)), e)

\* _seconds_per_beat = 60.0 / bpm
FloatSecondsPerBeat(value) == FloatDiv(60, value)

RECURSIVE SumBeats(_)
SumBeats(progression) ==
    IF progression = << >> THEN 0
    ELSE progression[1].beats + SumBeats(Tail(progression))

\* get_progression_duration: beats_to_seconds of the sum of the beats
get_progression_duration(progression, spb) ==
    FloatMulInt(SumBeats(progression), spb)

RECURSIVE ScheduleUpTo(_, _, _)
\* create_schedule after n iterations of its loop
ScheduleUpTo(progression, spb, n) ==
    IF n = 0 THEN << >>
    ELSE LET schedule == ScheduleUpTo(progression, spb, n - 1)
             current_time == IF n = 1 THEN FloatZero
                             ELSE FloatAdd(schedule[n - 1][1], schedule[n - 1][2])
             duration == FloatMulInt(progression[n].beats, spb)
         IN  Append(schedule, <<current_time, duration, progression[n].root,
                                progression[n].chord_type>>)

\* (mutation: every entry starts at time zero)
create_scheduleMutant(progression, spb) ==
    [n \in 1..Len(progression) |->
        <<FloatZero, FloatMulInt(progression[n].beats, spb),
          progression[n].root, progression[n].chord_type>>]
create_schedule(progression, spb) ==
    ScheduleUpTo(progression, spb, Len(progression))

(* ----------------------------- request inputs -------------------------- *)

ChordTiming(root, chord_type, beats) ==
    [root |-> root, chord_type |-> chord_type, beats |-> beats]

\* progressions a client posts to /play
ProgTwo      == << ChordTiming("C", "5", 2), ChordTiming("G", "5", 1) >>
ProgBadRoot  == << ChordTiming("H", "5", 1), ChordTiming("C", "5", 2) >>
ProgBadType  == << ChordTiming("C", "Blues", 1) >>
ProgEmpty    == << >>
ProgBadBeats == << ChordTiming("C", "5", 17) >>
ProgNoBeats  == << ChordTiming("C", "5", 2), ChordTiming("G", "5", 0) >>
ProgTooLong  == [n \in 1..101 |-> ChordTiming("C", "5", 1)]

\* bodies of POST /play: requests that pass the field constraints of
\* PlaybackRequest, and some that do not
PlaybackRequests ==
    {[progression |-> ProgTwo, bpm |-> 120, loop |-> TRUE],
     [progression |-> ProgTwo, bpm |-> 120, loop |-> FALSE],
     [progression |-> ProgBadRoot, bpm |-> 120, loop |-> TRUE],
     [progression |-> ProgBadType, bpm |-> 120, loop |-> FALSE],
     [progression |-> ProgEmpty, bpm |-> 120, loop |-> TRUE],
     [progression |-> ProgBadBeats, bpm |-> 120, loop |-> TRUE],
     [progression |-> ProgTwo, bpm |-> 301, loop |-> FALSE]}

\* bodies of POST /bpm
BpmInputs == {120, 301}

NoRequest == [progression |-> << >>, bpm |-> 0, loop |-> FALSE]

\* Field(ge=1, le=16) of ProgressionChord.beats
BeatsOk(chord) == 1 <= chord.beats /\ chord.beats <= 16

\* (mutation: PlaybackRequest.progression without max_length)
RequestValidMutant(req) ==
    /\ 1 <= Len(req.progression)
    /\ \A n \in 1..Len(req.progression) : BeatsOk(req.progression[n])
    /\ 30 <= req.bpm /\ req.bpm <= 300

\* Field(min_length=1, max_length=100), Field(ge=30, le=300): what pydantic
\* checks of a PlaybackRequest before play_progression runs.  root and
\* chord_type are plain str fields: any string passes.
RequestValid(req) ==
    /\ 1 <= Len(req.progression) /\ Len(req.progression) <= 100
    /\ \A n \in 1..Len(req.progression) : BeatsOk(req.progression[n])
    /\ 30 <= req.bpm /\ req.bpm <= 300

(* -------------------------------- state -------------------------------- *)

VARIABLES
    is_playing,           \* playback_state["is_playing"]
    current_progression,  \* playback_state["current_progression"]
    loop_enabled,         \* playback_state["loop_enabled"]
    playback_thread,      \* playback_state["playback_thread"] (0: None)
    playback_lock,        \* holder of playback_lock, or None
    bpm,                  \* timing_engine._bpm
    seconds_per_beat,     \* timing_engine._seconds_per_beat (ms)
    is_initialized,       \* synth_engine.is_initialized
    fs,                   \* synth_engine.fs: "none", "live" or "deleted"
    notes,                \* pitches sounding on the synthesizer
    down,                 \* the shutdown event has run
    rpc,                  \* per request slot: where its handler stands
    rreq,                 \* per request slot: the body being handled
    rthread,              \* per request slot: play_progression's `thread` (0: unset)
    response,             \* per request slot: the response being returned
    th,                   \* per worker thread: playback_worker's frame
    hist,                 \* per worker thread: history (observation only)
    shutdown_calls,       \* SynthEngine methods shutdown_event has invoked
    engine_call           \* the last direct call of an engine and its result

state == <<is_playing, current_progression, loop_enabled, playback_thread,
           playback_lock, bpm, seconds_per_beat>>
synth == <<is_initialized, fs, notes>>
vars == <<state, synth, down, shutdown_calls, engine_call, rpc, rreq, rthread,
          response, th, hist>>

\* a thread that /play has not created yet
NoThread ==
    [pc |-> "unborn", progression |-> << >>, schedule |-> << >>,
     current_time |-> 0, i |-> 0, duration |-> 0, midi_notes |-> << >>,
     real |-> FALSE, passes |-> 0]

\* history of a worker: the loop flag of the request that created it, chords
\* begun since a successful /stop (-1: no stop yet), whether a stop, another
\* start, shutdown or an error has touched its session, the error that left
\* its try block, the schedule indices it sounded, whether it has called
\* stop_all_notes since its last chord, whether a start succeeded after its
\* cleanup cleared is_playing, the values _seconds_per_beat has had since
\* its current pass began, and the durations it gave to play_chord
NoHist ==
    [loop |-> FALSE, afterStop |-> -1, disturbed |-> FALSE, err |-> "none",
     sounded |-> << >>, silenced |-> FALSE, restarted |-> FALSE,
     tempi |-> {}, slept |-> << >>]

\* no engine has been called directly
NoCall == [op |-> "none"]

Init ==
    /\ is_playing = FALSE
    /\ current_progression = << >>
    /\ loop_enabled = TRUE
    /\ playback_thread = 0
    /\ playback_lock = None
    /\ bpm = 120
    /\ seconds_per_beat = SecondsPerBeat(120)
    /\ is_initialized \in BOOLEAN
    /\ fs = IF is_initialized THEN "live" ELSE "none"
    /\ notes = {}
    /\ down = FALSE
    /\ rpc = [r \in Reqs |-> "idle"]
    /\ rreq = [r \in Reqs |-> NoRequest]
    /\ rthread = [r \in Reqs |-> 0]
    /\ response = [r \in Reqs |-> "none"]
    /\ th = [w \in Workers |-> NoThread]
    /\ hist = [w \in Workers |-> NoHist]
    /\ shutdown_calls = << >>
    /\ engine_call = NoCall

Allocated(w) == th[w].pc # "unborn"
\* inside the `while` of playback_worker: started and not yet out of the loop
LoopLive(w) == th[w].pc \in {"while", "build", "for", "play", "sleep", "loopcheck"}
\* the thread function has not returned
Running(w) == LoopLive(w) \/ th[w].pc \in {"finally", "silence"}
EventLoopIdle == \A r \in Reqs : rpc[r] = "idle"
PlaysInFlight == {r \in Reqs : rpc[r] \in {"play_validate", "play_wait", "play_locked"}}

Range(seq) == {seq[n] : n \in 1..Len(seq)}

\* every session a stop, start, shutdown or error reaches is marked
Disturb(ws) ==
    [w \in Workers |->
        IF w \in ws /\ Allocated(w) /\ th[w].pc # "done"
        THEN [hist[w] EXCEPT !.disturbed = TRUE] ELSE hist[w]]

\* the tempo is set while some loops are in a pass
NoteTempo(h, spb) ==
    [w \in Workers |->
        IF th[w].pc \in {"build", "for", "play", "sleep", "loopcheck"}
        THEN [h[w] EXCEPT !.tempi = @ \cup {spb}] ELSE h[w]]

(* --------------------------- synth_engine.py --------------------------- *)

\* (mutation: stop_all_notes turns nothing off)
stop_all_notesMutant == notes
\* stop_all_notes: noteoff for all 128 pitches, or a log line in mock mode
stop_all_notes == IF is_initialized THEN {} ELSE notes

(* ------------------------- main.py: POST /play ------------------------- *)

\* (mutation: the handlers and the cleanup never wait for the lock)
LockFreeMutant == TRUE
\* `with playback_lock:` can be entered
LockFree == playback_lock = None

\* (mutation: /play without its test of is_playing)
AlreadyPlayingMutant == FALSE
\* `if playback_state["is_playing"]: raise HTTPException(409)`
AlreadyPlaying == is_playing

\* the request arrives; the bound on threads is applied here
PlayCall(r, req) ==
    /\ ~down
    /\ rpc[r] = "idle"
    /\ Cardinality({w \in Workers : Allocated(w)}) + Cardinality(PlaysInFlight)
         < MaxWorkers
    /\ rpc' = [rpc EXCEPT ![r] = "play_validate"]
    /\ rreq' = [rreq EXCEPT ![r] = req]
    /\ UNCHANGED <<state, synth, down, shutdown_calls, engine_call>>
    /\ UNCHANGED <<rthread, response, th, hist>>

\* pydantic validates the body against PlaybackRequest (422 on failure: the
\* handler body does not run)
PlayValidate(r) ==
    /\ rpc[r] = "play_validate"
    /\ IF RequestValid(rreq[r])
       THEN /\ rpc' = [rpc EXCEPT ![r] = "play_wait"]
            /\ UNCHANGED <<rreq, response>>
       ELSE /\ rpc' = [rpc EXCEPT ![r] = "responding"]
            /\ response' = [response EXCEPT ![r] = "422"]
            /\ UNCHANGED rreq
    /\ UNCHANGED <<state, synth, down, shutdown_calls, engine_call>>
    /\ UNCHANGED <<rthread, th, hist>>

\* lines 154-156: take the lock and test is_playing
PlayEnter(r) ==
    /\ rpc[r] = "play_wait"
    /\ LockFree
    /\ IF AlreadyPlaying
       THEN /\ rpc' = [rpc EXCEPT ![r] = "responding"]
            /\ rreq' = [rreq EXCEPT ![r] = NoRequest]
            /\ response' = [response EXCEPT ![r] = "409 Playback already in progress"]
            /\ UNCHANGED playback_lock
       ELSE /\ rpc' = [rpc EXCEPT ![r] = "play_locked"]
            /\ playback_lock' = r
            /\ UNCHANGED <<rreq, response>>
    /\ UNCHANGED <<is_playing, current_progression, loop_enabled,
                   playback_thread, bpm, seconds_per_beat>>
    /\ UNCHANGED <<synth, down, shutdown_calls, engine_call, rthread, th, hist>>

\* lines 158-170: set the tempo, build and store the progression, set the
\* flags, leave the lock.  The thread object of line 194 is identified here,
\* where its closure variable `progression` is bound.
PlayCommit(r) ==
    /\ rpc[r] = "play_locked"
    /\ playback_lock' = None
    /\ IF BpmInRange(rreq[r].bpm)
       THEN LET w == CHOOSE v \in Workers :
                       ~Allocated(v) /\ \A u \in Workers : u < v => Allocated(u)
            IN  /\ bpm' = rreq[r].bpm
                /\ seconds_per_beat' = SecondsPerBeat(rreq[r].bpm)
                /\ current_progression' = rreq[r].progression
                /\ loop_enabled' = rreq[r].loop
                /\ is_playing' = TRUE
                /\ rpc' = [rpc EXCEPT ![r] = "play_launch"]
                /\ rthread' = [rthread EXCEPT ![r] = w]
                /\ th' = [th EXCEPT ![w] =
                            [NoThread EXCEPT !.pc = "created",
                                             !.progression = rreq[r].progression]]
                /\ hist' = [v \in Workers |->
                              IF v = w THEN [NoHist EXCEPT !.loop = rreq[r].loop]
                              ELSE IF th[v].pc = "silence"
                                   THEN [Disturb(Workers)[v] EXCEPT !.restarted = TRUE]
                                   ELSE NoteTempo(Disturb(Workers),
                                                  SecondsPerBeat(rreq[r].bpm))[v]]
                /\ UNCHANGED <<rreq, response>>
       ELSE \* the bpm setter raises ValueError: the request fails (500)
            /\ rpc' = [rpc EXCEPT ![r] = "responding"]
            /\ rreq' = [rreq EXCEPT ![r] = NoRequest]
            /\ response' = [response EXCEPT ![r] = "500"]
            /\ UNCHANGED <<is_playing, current_progression, loop_enabled,
                           bpm, seconds_per_beat, rthread, th, hist>>
    /\ UNCHANGED <<playback_thread, synth, down, shutdown_calls, engine_call>>

\* lines 194-202: start the thread, record it, answer
PlayLaunch(r) ==
    /\ rpc[r] = "play_launch"
    /\ th' = [th EXCEPT ![rthread[r]].pc = "while"]
    /\ playback_thread' = rthread[r]
    /\ rpc' = [rpc EXCEPT ![r] = "responding"]
    /\ rreq' = [rreq EXCEPT ![r] = NoRequest]
    /\ rthread' = [rthread EXCEPT ![r] = 0]
    /\ response' = [response EXCEPT ![r] = "playing"]
    /\ UNCHANGED <<is_playing, current_progression, loop_enabled,
                   playback_lock, bpm, seconds_per_beat>>
    /\ UNCHANGED <<synth, down, shutdown_calls, engine_call, hist>>

(* ------------------------- main.py: POST /stop ------------------------- *)

\* (mutation: /stop without its test of is_playing)
NotPlayingMutant == FALSE
\* `if not playback_state["is_playing"]: raise HTTPException(409)`
NotPlaying == ~is_playing

StopCall(r) ==
    /\ ~down
    /\ rpc[r] = "idle"
    /\ rpc' = [rpc EXCEPT ![r] = "stop_wait"]
    /\ UNCHANGED <<state, synth, down, shutdown_calls, engine_call>>
    /\ UNCHANGED <<rreq, rthread, response, th, hist>>

\* lines 211-215: the locked section of stop_playback
StopLocked(r) ==
    /\ rpc[r] = "stop_wait"
    /\ LockFree
    /\ IF NotPlaying
       THEN /\ rpc' = [rpc EXCEPT ![r] = "responding"]
            /\ response' = [response EXCEPT ![r] = "409 No playback in progress"]
            /\ UNCHANGED <<is_playing, hist>>
       ELSE /\ is_playing' = FALSE
            /\ rpc' = [rpc EXCEPT ![r] = "stop_silence"]
            /\ hist' = [w \in Workers |->
                          IF LoopLive(w) /\ hist[w].afterStop = -1
                          THEN [Disturb(Workers)[w] EXCEPT !.afterStop = 0]
                          ELSE Disturb(Workers)[w]]
            /\ UNCHANGED response
    /\ UNCHANGED <<current_progression, loop_enabled, playback_thread,
                   playback_lock, bpm, seconds_per_beat>>
    /\ UNCHANGED <<synth, down, shutdown_calls, engine_call, rreq, rthread, th>>

\* lines 217-219
StopSilence(r) ==
    /\ rpc[r] = "stop_silence"
    /\ notes' = stop_all_notes
    /\ rpc' = [rpc EXCEPT ![r] = "responding"]
    /\ response' = [response EXCEPT ![r] = "stopped"]
    /\ UNCHANGED <<state, is_initialized, fs, down, shutdown_calls, engine_call>>
    /\ UNCHANGED <<rreq, rthread, th, hist>>

(* -------------------------- main.py: POST /bpm ------------------------- *)

\* BPMUpdateRequest is validated (422), then the bpm setter runs
SetBpm(r, value) ==
    /\ ~down
    /\ rpc[r] = "idle"
    /\ rpc' = [rpc EXCEPT ![r] = "responding"]
    /\ rreq' = [rreq EXCEPT ![r] = [NoRequest EXCEPT !.bpm = value]]
    /\ IF 30 <= value /\ value <= 300
       THEN IF BpmInRange(value)
            THEN /\ bpm' = value
                 /\ seconds_per_beat' = SecondsPerBeat(value)
                 /\ response' = [response EXCEPT ![r] = "bpm"]
                 /\ hist' = NoteTempo(hist, SecondsPerBeat(value))
            ELSE /\ response' = [response EXCEPT ![r] = "400"]
                 /\ UNCHANGED <<bpm, seconds_per_beat, hist>>
       ELSE /\ response' = [response EXCEPT ![r] = "422"]
            /\ UNCHANGED <<bpm, seconds_per_beat, hist>>
    /\ UNCHANGED <<is_playing, current_progression, loop_enabled,
                   playback_thread, playback_lock>>
    /\ UNCHANGED <<synth, down, shutdown_calls, engine_call>>
    /\ UNCHANGED <<rthread, th>>

\* the response leaves; the slot is free for the next request
Return(r) ==
    /\ rpc[r] = "responding"
    /\ rpc' = [rpc EXCEPT ![r] = "idle"]
    /\ rreq' = [rreq EXCEPT ![r] = NoRequest]
    /\ response' = [response EXCEPT ![r] = "none"]
    /\ UNCHANGED <<state, synth, down, shutdown_calls, engine_call>>
    /\ UNCHANGED <<rthread, th, hist>>

(* --------------------------- main.py: shutdown ------------------------- *)

\* shutdown_event: clear the flag without the lock, then SynthEngine.cleanup
\* (which deletes the synthesizer when there is one)
Shutdown ==
    /\ ~down
    /\ EventLoopIdle
    /\ down' = TRUE
    /\ is_playing' = FALSE
    /\ shutdown_calls' = Append(shutdown_calls, "cleanup")
    /\ IF is_initialized /\ fs = "live"
       THEN /\ fs' = "deleted"
            /\ is_initialized' = FALSE
            /\ notes' = {}
       ELSE UNCHANGED <<is_initialized, fs, notes>>
    /\ hist' = Disturb(Workers)
    /\ UNCHANGED <<current_progression, loop_enabled, playback_thread,
                   playback_lock, bpm, seconds_per_beat>>
    /\ UNCHANGED <<rpc, rreq, rthread, response, th, engine_call>>

(* --------------------- main.py: playback_worker ------------------------ *)

Min(a, b) == IF a < b THEN a ELSE b

\* (mutation: no finally clause, an exception ends the thread at once)
OnExceptionMutant == "done"
\* where an exception raised inside the try block continues: the finally
\* clause of lines 189-192 (there is no except clause)
OnException == "finally"

\* the frame and history of a worker after an exception of the given kind
Raise(w, kind) ==
    /\ th' = [th EXCEPT ![w].pc = OnException, ![w].midi_notes = << >>,
                         ![w].duration = 0]
    /\ hist' = [hist EXCEPT ![w].err = kind, ![w].disturbed = TRUE]

\* line 175: `while playback_state["is_playing"]:`, read without the lock
WhileCheck(w) ==
    /\ th[w].pc = "while"
    /\ is_playing => th[w].passes < MaxPasses
    /\ th' = [th EXCEPT ![w] =
                IF is_playing
                THEN [th[w] EXCEPT
                        !.pc = IF Len(th[w].progression) = 0 THEN "for" ELSE "build",
                        !.schedule = << >>, !.current_time = 0,
                        !.i = 1, !.passes = @ + 1]
                ELSE [th[w] EXCEPT !.pc = "finally"]]
    /\ hist' = IF is_playing
               THEN [hist EXCEPT ![w].tempi = {seconds_per_beat}] ELSE hist
    /\ UNCHANGED <<state, synth, down, shutdown_calls, engine_call>>
    /\ UNCHANGED <<rpc, rreq, rthread, response>>

\* line 176, timing_engine.create_schedule: one iteration of its for loop,
\* reading _seconds_per_beat as beats_to_seconds does
BuildStep(w) ==
    /\ th[w].pc = "build"
    /\ LET k == Len(th[w].schedule) + 1
           chord_timing == th[w].progression[k]
           duration == beats_to_seconds(chord_timing.beats, seconds_per_beat)
       IN  th' = [th EXCEPT
                    ![w].schedule = Append(@, <<th[w].current_time, duration,
                                               chord_timing.root,
                                               chord_timing.chord_type>>),
                    ![w].current_time = @ + duration,
                    ![w].pc = IF k = Len(th[w].progression) THEN "for" ELSE "build"]
    /\ UNCHANGED <<state, synth, down, shutdown_calls, engine_call>>
    /\ UNCHANGED <<rpc, rreq, rthread, response, hist>>

\* (mutation: the duration of an entry is taken at the tempo of the moment)
EntryDurationMutant(w) ==
    beats_to_seconds(th[w].progression[th[w].i].beats, seconds_per_beat)
\* line 178: `duration` of the schedule entry the for loop unpacks
EntryDuration(w) == th[w].schedule[th[w].i][2]

\* the loop over the schedule goes on after an entry, or breaks
NextEntry(w) == th[w].i <= Len(th[w].schedule) /\ is_playing

\* lines 178-183: next schedule entry, the is_playing test, generate_chord
ForStep(w) ==
    /\ th[w].pc = "for"
    /\ IF ~NextEntry(w)
       THEN \* schedule exhausted, or `break`: on to line 186
            /\ th' = [th EXCEPT ![w].pc = "loopcheck"]
            /\ UNCHANGED hist
       ELSE LET e == th[w].schedule[th[w].i]
            IN  IF ChordRaises(e[3], e[4])
                THEN Raise(w, "chord")
                ELSE /\ th' = [th EXCEPT ![w].pc = "play",
                                         ![w].duration = EntryDuration(w),
                                         ![w].midi_notes = generate_chord(e[3], e[4])]
                     /\ UNCHANGED hist
    /\ UNCHANGED <<state, synth, down, shutdown_calls, engine_call>>
    /\ UNCHANGED <<rpc, rreq, rthread, response>>

\* line 184, synth_engine.play_chord up to its time.sleep: the mock branch,
\* or noteon for every pitch; a call into the synthesizer may raise
PlayChord(w) ==
    /\ th[w].pc = "play"
    /\ \E outcome \in IF is_initialized THEN {"ok", "raise"} ELSE {"ok"} :
         IF outcome = "raise"
         THEN /\ Raise(w, "sink")
              /\ UNCHANGED notes
         ELSE /\ th' = [th EXCEPT ![w].pc = "sleep", ![w].real = is_initialized]
              /\ notes' = IF is_initialized
                          THEN notes \cup Range(th[w].midi_notes) ELSE notes
              /\ hist' = [hist EXCEPT
                            ![w].sounded = Append(@, th[w].i),
                            ![w].slept = Append(@, th[w].duration),
                            ![w].silenced = FALSE,
                            ![w].afterStop = IF @ = -1 THEN -1 ELSE Min(@ + 1, 2)]
    /\ UNCHANGED <<state, is_initialized, fs, down, shutdown_calls, engine_call>>
    /\ UNCHANGED <<rpc, rreq, rthread, response>>

\* play_chord after its time.sleep: noteoff for every pitch (not in the mock
\* branch), which may raise; then the next iteration of line 178
Wake(w) ==
    /\ th[w].pc = "sleep"
    /\ \E outcome \in IF th[w].real THEN {"ok", "raise"} ELSE {"ok"} :
         IF outcome = "raise"
         THEN /\ Raise(w, "sink")
              /\ UNCHANGED notes
         ELSE /\ th' = [th EXCEPT ![w].pc = "for", ![w].i = @ + 1,
                                  ![w].duration = 0,
                                  ![w].midi_notes = << >>, ![w].real = FALSE]
              /\ notes' = IF th[w].real
                          THEN notes \ Range(th[w].midi_notes) ELSE notes
              /\ UNCHANGED hist
    /\ UNCHANGED <<state, is_initialized, fs, down, shutdown_calls, engine_call>>
    /\ UNCHANGED <<rpc, rreq, rthread, response>>

\* the loop leaves after a pass: `if not playback_state["loop_enabled"]: break`
LeaveAfterPass == ~loop_enabled

\* lines 186-187
LoopCheck(w) ==
    /\ th[w].pc = "loopcheck"
    /\ th' = [th EXCEPT ![w].pc = IF LeaveAfterPass THEN "finally" ELSE "while"]
    /\ UNCHANGED <<state, synth, down, shutdown_calls, engine_call>>
    /\ UNCHANGED <<rpc, rreq, rthread, response, hist>>

\* lines 190-191: `with playback_lock: playback_state["is_playing"] = False`
Finally(w) ==
    /\ th[w].pc = "finally"
    /\ LockFree
    /\ is_playing' = FALSE
    /\ th' = [th EXCEPT ![w].pc = "silence"]
    /\ UNCHANGED <<current_progression, loop_enabled, playback_thread,
                   playback_lock, bpm, seconds_per_beat>>
    /\ UNCHANGED <<synth, down, shutdown_calls, engine_call>>
    /\ UNCHANGED <<rpc, rreq, rthread, response, hist>>

\* line 192: synth_engine.stop_all_notes(), then the thread function returns
Silence(w) ==
    /\ th[w].pc = "silence"
    /\ notes' = stop_all_notes
    /\ th' = [th EXCEPT ![w].pc = "done"]
    /\ hist' = [hist EXCEPT ![w].silenced = TRUE]
    /\ UNCHANGED <<state, is_initialized, fs, down, shutdown_calls, engine_call>>
    /\ UNCHANGED <<rpc, rreq, rthread, response>>

WorkerStep(w) ==
    \/ WhileCheck(w)
    \/ BuildStep(w)
    \/ ForStep(w)
    \/ PlayChord(w)
    \/ Wake(w)
    \/ LoopCheck(w)
    \/ Finally(w)
    \/ Silence(w)

\* a handler that has been entered runs on
HandlerStep(r) ==
    \/ PlayValidate(r)
    \/ PlayEnter(r)
    \/ PlayCommit(r)
    \/ PlayLaunch(r)
    \/ StopLocked(r)
    \/ StopSilence(r)
    \/ Return(r)

(* ---------------------------- specifications --------------------------- *)

\* The endpoints are `async def` without an await: the event loop runs one
\* handler at a time, to its end, while the worker threads run beside it.
Next ==
    \/ \E req \in PlaybackRequests : PlayCall(EventLoop, req)
    \/ StopCall(EventLoop)
    \/ \E value \in BpmInputs : SetBpm(EventLoop, value)
    \/ HandlerStep(EventLoop)
    \/ \E w \in Workers : WorkerStep(w)
    \/ Shutdown

Spec == Init /\ [][Next]_vars

\* The /play and /stop handlers run by concurrent request threads, as under
\* a threaded server: nothing but playback_lock orders them.
ThreadRequests ==
    {[progression |-> ProgTwo, bpm |-> 120, loop |-> FALSE],
     [progression |-> ProgBadType, bpm |-> 120, loop |-> TRUE]}

NextThreads ==
    \/ \E r \in Reqs, req \in ThreadRequests : PlayCall(r, req)
    \/ \E r \in Reqs : StopCall(r)
    \/ \E r \in Reqs : HandlerStep(r)
    \/ \E w \in Workers : WorkerStep(w)

SpecThreads == Init /\ [][NextThreads]_vars

\* Playback under fair scheduling: the operating system schedules every
\* started thread again and again (a time.sleep ends), and the event loop
\* runs a handler it has entered to its end.  Requests arrive or not.
FairRequests ==
    {[progression |-> ProgTwo, bpm |-> 120, loop |-> FALSE],
     [progression |-> ProgTwo, bpm |-> 120, loop |-> TRUE],
     [progression |-> ProgBadRoot, bpm |-> 120, loop |-> FALSE]}

NextFair ==
    \/ \E req \in FairRequests : PlayCall(EventLoop, req)
    \/ StopCall(EventLoop)
    \/ HandlerStep(EventLoop)
    \/ \E w \in Workers : WorkerStep(w)
    \/ Shutdown

FairSpec ==
    /\ Init
    /\ [][NextFair]_vars
    /\ WF_vars(HandlerStep(EventLoop))
    /\ \A w \in Workers : WF_vars(WorkerStep(w))

\* One playback session under the whole range of request bodies: /play is
\* posted until a start succeeds, /bpm and /stop at any time.
SessionRequests ==
    {[progression |-> ProgTwo, bpm |-> 60, loop |-> TRUE],
     [progression |-> ProgTwo, bpm |-> 60, loop |-> FALSE],
     [progression |-> ProgEmpty, bpm |-> 60, loop |-> TRUE],
     [progression |-> ProgTooLong, bpm |-> 60, loop |-> TRUE],
     [progression |-> ProgBadBeats, bpm |-> 60, loop |-> FALSE],
     [progression |-> ProgNoBeats, bpm |-> 60, loop |-> FALSE],
     [progression |-> ProgTwo, bpm |-> 29, loop |-> TRUE],
     [progression |-> ProgTwo, bpm |-> 301, loop |-> TRUE]}

\* bodies of POST /bpm: the ends of the range and their neighbours
TempoInputs == {29, 30, 300, 301}

NoSessionYet == \A w \in Workers : ~Allocated(w)

NextSession ==
    \/ \E req \in SessionRequests : NoSessionYet /\ PlayCall(EventLoop, req)
    \/ StopCall(EventLoop)
    \/ \E value \in TempoInputs : SetBpm(EventLoop, value)
    \/ HandlerStep(EventLoop)
    \/ \E w \in Workers : WorkerStep(w)

SpecSession == Init /\ [][NextSession]_vars

(* ------------------------ the engines on their own --------------------- *)

\* POST /generate-chord: generate_chord and chord_to_note_names, or 400
GenerateChordCall(root, chord_type) ==
    /\ engine_call' =
          IF ChordRaises(root, chord_type)
          THEN [op |-> "generate_chord", root |-> root, chord_type |-> chord_type,
                status |-> 400, midi_notes |-> << >>, note_names |-> << >>]
          ELSE [op |-> "generate_chord", root |-> root, chord_type |-> chord_type,
                status |-> 200, midi_notes |-> generate_chord(root, chord_type),
                note_names |-> chord_to_note_names(generate_chord(root, chord_type))]
    /\ UNCHANGED <<state, synth, down, shutdown_calls, rpc, rreq, rthread,
                   response, th, hist>>

\* a TimingEngine of its own at the given tempo, as the first call of a run:
\* create_schedule and get_progression_duration of a progression
TimingCall(value, progression) ==
    /\ engine_call = NoCall
    /\ engine_call' =
          [op |-> "timing", bpm |-> value, progression |-> progression,
           schedule |-> create_schedule(progression, FloatSecondsPerBeat(value)),
           total_duration |->
               get_progression_duration(progression, FloatSecondsPerBeat(value))]
    /\ UNCHANGED <<state, synth, down, shutdown_calls, rpc, rreq, rthread,
                   response, th, hist>>

\* roots and chord types posted to /generate-chord: all the registered ones
\* and some that are not
ChordRoots == DOMAIN NOTE_VALUES \cup {"H", "c"}
ChordQualities == DOMAIN CHORD_TYPES \cup {"Blues"}

\* tempi and progressions given to the TimingEngine: up to MaxEntries chords
TimingTempi == {30, 31, 60, 120, 300}
TimingBeats == {1, 4, 9, 16}
TimingProgressions ==
    UNION {[1..len -> {ChordTiming("C", "Major", beats) : beats \in TimingBeats}]
           : len \in 0..MaxEntries}

NextEngine ==
    \/ \E root \in ChordRoots, chord_type \in ChordQualities :
          GenerateChordCall(root, chord_type)
    \/ \E value \in TimingTempi, progression \in TimingProgressions :
          TimingCall(value, progression)

SpecEngine == Init /\ [][NextEngine]_vars

(* -------------------------------- claims ------------------------------- *)

HasUnknownChord(progression) ==
    \E n \in 1..Len(progression) :
        ChordRaises(progression[n].root, progression[n].chord_type)

\* C1: at most one background execution loop is live (started and not yet
\* out of its loop) in every reachable state.
C1_AtMostOneLoopLive == Cardinality({w \in Workers : LoopLive(w)}) <= 1

\* C2: a start that finds the session Playing answers 409 and changes
\* nothing: is_playing, the recorded progression, loop_enabled, the tempo,
\* the threads and the synthesizer are as before, and the handler is over.
C2_StartWhilePlayingFails ==
    [][\A r \in Reqs :
         (rpc[r] = "play_wait" /\ rpc'[r] # "play_wait" /\ is_playing)
         => /\ response'[r] = "409 Playback already in progress"
            /\ rpc'[r] = "responding"
            /\ UNCHANGED <<state, synth, th, hist>>]_vars

\* C2 witness: a start has just been refused while a session is playing and
\* its loop is running.
C2_Witness ==
    /\ response[EventLoop] = "409 Playback already in progress"
    /\ is_playing
    /\ \E w \in Workers : LoopLive(w)

\* C4: a stop that finds the session Idle answers 409 and changes nothing;
\* it does not reach stop_all_notes.
C4_StopWhileIdleFails ==
    [][\A r \in Reqs :
         (rpc[r] = "stop_wait" /\ rpc'[r] # "stop_wait" /\ ~is_playing)
         => /\ response'[r] = "409 No playback in progress"
            /\ rpc'[r] = "responding"
            /\ UNCHANGED <<state, synth, th, hist>>]_vars

\* C4 witness: a stop has just been refused on an idle session whose earlier
\* playback left a tempo, a progression and a finished thread behind.
C4_Witness ==
    /\ response[EventLoop] = "409 No playback in progress"
    /\ ~is_playing
    /\ current_progression # << >>
    /\ \E w \in Workers : th[w].pc = "done"

\* C5: after a successful stop, a loop that was running at that moment
\* begins sounding at most one further schedule entry.
C5_StopLatencyOneEntry == \A w \in Workers : hist[w].afterStop <= 1

\* C8: when generate_chord raises for a schedule entry, the loop goes on to
\* the next entry and the session stays Playing.
C8_BadChordSkipsEntry ==
    [][\A w \in Workers :
         (/\ th[w].pc = "for" /\ th'[w] # th[w] /\ NextEntry(w)
          /\ ChordRaises(th[w].schedule[th[w].i][3], th[w].schedule[th[w].i][4]))
         => /\ th'[w].pc = "for"
            /\ th'[w].i = th[w].i + 1
            /\ is_playing']_vars

\* C9: when a synthesizer call of an iteration raises, the loop goes on to
\* the next entry and is_playing stays as it was.
C9_SinkFailureSwallowed ==
    [][\A w \in Workers :
         (hist[w].err # "sink" /\ hist'[w].err = "sink")
         => /\ th'[w].pc = "for"
            /\ th'[w].i = th[w].i + 1
            /\ is_playing' = is_playing]_vars

\* C10: a progression with an unknown root or chord type is never recorded
\* in the session and never given to a background loop.
C10_UnknownChordNeverRecorded ==
    /\ ~HasUnknownChord(current_progression)
    /\ \A w \in Workers : ~HasUnknownChord(th[w].progression)

\* C3: the test of is_playing and the transition to Playing are one critical
\* section.  Under concurrent request threads a start commits only from an
\* Idle session, alone in the section, and records its own progression and
\* loop flag; a start that finds the session Playing is refused with 409.
C3_StartIsAtomic ==
    [][\A r \in Reqs :
         /\ (rpc[r] = "play_locked" /\ rpc'[r] = "play_launch")
            => /\ ~is_playing /\ is_playing'
               /\ current_progression' = rreq[r].progression
               /\ loop_enabled' = rreq[r].loop
               /\ \A q \in Reqs \ {r} : rpc[q] # "play_locked"
         /\ (rpc[r] = "play_wait" /\ rpc'[r] # "play_wait" /\ is_playing)
            => response'[r] = "409 Playback already in progress"]_vars

\* C3 witness: of two starts in flight together against an Idle session, one
\* has committed its progression and the other has been refused.
C3_Witness ==
    /\ rpc["r1"] = "play_launch"
    /\ response["r2"] = "409 Playback already in progress"
    /\ current_progression = rreq["r1"].progression
    /\ Cardinality({w \in Workers : Allocated(w)}) = 1

\* the step in which the thread function of worker w returns
Exits(w) == th[w].pc # "done" /\ th'[w].pc = "done"

\* C6 as stated: whenever a background loop exits it has called
\* stop_all_notes after its last chord, and is_playing is false.
C6_CleanupLeavesIdle ==
    [][\A w \in Workers :
         Exits(w) => /\ th[w].pc = "silence"
                     /\ hist'[w].silenced
                     /\ ~is_playing']_vars

\* C6 amended: every exit of a background loop (stop, natural completion,
\* an exception) passes through the cleanup, which has cleared is_playing
\* under the lock and then calls stop_all_notes after the loop's last chord,
\* leaving no pitch sounding on an initialized synthesizer; is_playing is
\* false at the exit unless a start succeeded after the cleanup cleared it.
C6_CleanupOnEveryExit ==
    [][\A w \in Workers :
         /\ Exits(w) => /\ th[w].pc = "silence"
                        /\ hist'[w].silenced
                        /\ is_initialized => notes' = {}
                        /\ ~is_playing' \/ hist[w].restarted
         /\ (th[w].pc = "finally" /\ th'[w].pc # "finally")
            => th'[w].pc = "silence" /\ ~is_playing']_vars

\* C6 witness: a loop has exited after an exception of the synthesizer, with
\* the cleanup done and the session Idle.
C6_Witness ==
    \E w \in Workers :
        /\ th[w].pc = "done" /\ hist[w].err = "sink" /\ hist[w].silenced
        /\ Len(hist[w].sounded) > 0
        /\ ~is_playing /\ notes = {}

\* the session of worker w ran its course: no stop, no further start, no
\* shutdown and no exception since the start that created it
Undisturbed(w) == Allocated(w) /\ ~hist[w].disturbed

\* C7: a session started with loop disabled and left alone sounds every
\* entry of its progression exactly once, in progression order, then its
\* loop exits and is_playing becomes false (eventually, under fair
\* scheduling); a session started with loop enabled and left alone never
\* leaves its loop.
C7_NaturalCompletion ==
    /\ [](\A w \in Workers :
            (Undisturbed(w) /\ th[w].pc \in {"finally", "silence", "done"})
            => /\ ~hist[w].loop
               /\ hist[w].sounded = [n \in 1..Len(th[w].progression) |-> n]
               /\ \A n \in 1..Len(th[w].progression) :
                    /\ th[w].schedule[n][3] = th[w].progression[n].root
                    /\ th[w].schedule[n][4] = th[w].progression[n].chord_type
               /\ th[w].pc = "done" => ~is_playing)
    /\ \A w \in Workers :
         (Undisturbed(w) /\ ~hist[w].loop)
         ~> (hist[w].disturbed \/ (th[w].pc = "done" /\ ~is_playing))

\* a body that PlaybackRequest does not admit
C11_Malformed(req) ==
    \/ Len(req.progression) = 0
    \/ Len(req.progression) > 100
    \/ \E n \in 1..Len(req.progression) : req.progression[n].beats \notin 1..16
    \/ req.bpm \notin 30..300

C11_WellFormed(progression) ==
    /\ Len(progression) \in 1..100
    /\ \A n \in 1..Len(progression) : progression[n].beats \in 1..16

\* C11: a start whose progression is empty or longer than 100 entries, or
\* has an entry with beats outside 1..16, or whose bpm is outside 30..300, is
\* answered 422 before the handler body runs and changes nothing; every
\* progression recorded in the session or held by a background loop has
\* 1..100 entries with beats in 1..16.
C11_InvalidStartRejected ==
    /\ [](/\ current_progression # << >> => C11_WellFormed(current_progression)
          /\ \A w \in Workers : Allocated(w) => C11_WellFormed(th[w].progression))
    /\ [][\A r \in Reqs :
            (/\ rpc[r] = "play_validate" /\ rpc'[r] # "play_validate"
             /\ C11_Malformed(rreq[r]))
            => /\ response'[r] = "422"
               /\ rpc'[r] = "responding"
               /\ UNCHANGED <<state, synth, th, hist>>]_vars

\* C11 witness: a start with 101 entries has been answered 422 at a changed
\* tempo, with nothing recorded and no thread created.
C11_Witness ==
    /\ response[EventLoop] = "422"
    /\ Len(rreq[EventLoop].progression) = 101
    /\ bpm = 300 /\ seconds_per_beat = SecondsPerBeat(300)
    /\ current_progression = << >> /\ ~is_playing
    /\ \A w \in Workers : ~Allocated(w)

\* C12: in every state bpm is in 30..300 and seconds_per_beat is 60 / bpm
\* (60000 ms / bpm; the tempi of the model divide 60000); a /bpm or /play
\* body with a bpm outside 30..300 is answered 422 and leaves both as they
\* were; an accepted /bpm and a successful start set bpm to the posted value.
C12_TempoInvariant ==
    /\ [](bpm \in 30..300 /\ seconds_per_beat * bpm = 60000)
    /\ [][\A r \in Reqs :
            /\ (/\ rpc[r] \in {"idle", "play_validate"} /\ rpc'[r] = "responding"
                /\ rreq'[r].bpm \notin 30..300)
               => /\ response'[r] = "422"
                  /\ UNCHANGED <<bpm, seconds_per_beat>>
            /\ (/\ rpc[r] = "idle" /\ rpc'[r] = "responding"
                /\ rreq'[r].bpm \in 30..300)
               => bpm' = rreq'[r].bpm
            /\ (rpc[r] = "play_locked" /\ rpc'[r] = "play_launch")
               => bpm' = rreq[r].bpm]_vars

\* C12 witness: after a start at 60 and a /bpm of 30, a /bpm of 301 has been
\* refused while the session plays.
C12_Witness ==
    /\ response[EventLoop] = "422" /\ rreq[EventLoop].bpm = 301
    /\ bpm = 30 /\ seconds_per_beat = 2000
    /\ is_playing
    /\ \E w \in Workers : LoopLive(w) /\ Len(th[w].schedule) = 2
                            /\ th[w].schedule[1][2] = 2000

FloatOfInt(n) == FloatRound(NatBits(n), 0)

\* the next float above a positive float
FloatSucc(x) == FloatRound(AddBits(x.m, <<1>>), x.e)

RECURSIVE FloatSuccs(_, _)
FloatSuccs(x, k) == IF k = 0 THEN x ELSE FloatSuccs(FloatSucc(x), k - 1)

\* x and y are at most n floats apart
C13_Within(x, y, n) ==
    \E k \in 0..n : FloatSuccs(x, k) = y \/ FloatSuccs(y, k) = x

RECURSIVE C13_SumDurations(_, _)
\* the durations of the first n schedule entries, added up in order
C13_SumDurations(schedule, n) ==
    IF n = 0 THEN FloatZero
    ELSE FloatAdd(C13_SumDurations(schedule, n - 1), schedule[n][2])

\* 60 / value is a binary fraction: the float 60.0 / value is exact
C13_BinaryFraction(value) == \E k \in 0..8 : (60 * (2 ^ k)) % value = 0

\* the schedule of the call is a scan of its progression: one entry per
\* chord, in order, with duration beats * seconds_per_beat and start times
\* the running sum of the durations before it; the total duration is
\* sum(beats) * seconds_per_beat
C13_Scan ==
    engine_call.op = "timing" =>
      LET progression == engine_call.progression
          schedule == engine_call.schedule
          spb == FloatDiv(60, engine_call.bpm)
          beats == [n \in 1..Len(progression) |-> progression[n].beats]
      IN  /\ Len(schedule) = Len(progression)
          /\ \A n \in 1..Len(progression) :
               /\ schedule[n][3] = progression[n].root
               /\ schedule[n][4] = progression[n].chord_type
               /\ schedule[n][2] = FloatMulInt(beats[n], spb)
               /\ schedule[n][1] = IF n = 1 THEN FloatZero
                                   ELSE FloatAdd(schedule[n - 1][1],
                                                 schedule[n - 1][2])
          /\ engine_call.total_duration = FloatMulInt(SumBeats(progression), spb)
          /\ (engine_call.bpm = 120 /\ beats = <<4, 4>>)
             => engine_call.total_duration = FloatOfInt(4)
          /\ (engine_call.bpm = 60 /\ beats = <<4, 4>>)
             => engine_call.total_duration = FloatOfInt(8)
          /\ progression = << >>
             => schedule = << >> /\ engine_call.total_duration = FloatZero

\* C13 as stated: the schedule is a prefix-sum scan of the progression and
\* the sum of its durations equals the total duration.
C13_PrefixSumExact ==
    /\ C13_Scan
    /\ engine_call.op = "timing" =>
         C13_SumDurations(engine_call.schedule, Len(engine_call.schedule))
           = engine_call.total_duration

\* C13 amended: the schedule is a prefix-sum scan of the progression in
\* float arithmetic; the sum of its durations equals the total duration
\* when 60 / bpm is a binary fraction, and is otherwise within one float
\* per entry of it.
C13_PrefixSumRounded ==
    /\ C13_Scan
    /\ engine_call.op = "timing" =>
         LET sum == C13_SumDurations(engine_call.schedule,
                                     Len(engine_call.schedule))
         IN  /\ C13_Within(sum, engine_call.total_duration,
                           Len(engine_call.schedule))
             /\ C13_BinaryFraction(engine_call.bpm)
                => sum = engine_call.total_duration

\* C13 witness: at 31 BPM the durations of 1 and 9 beats add up to a float
\* that is not the total duration of 10 beats.
C13_Witness ==
    /\ engine_call.op = "timing" /\ engine_call.bpm = 31
    /\ Len(engine_call.progression) = 2
    /\ engine_call.progression[1].beats = 1
    /\ engine_call.progression[2].beats = 9
    /\ FloatAdd(engine_call.schedule[1][2], engine_call.schedule[2][2])
         # engine_call.total_duration
    /\ engine_call.schedule[2][1] = engine_call.schedule[1][2]

\* C14: with the default base octave 4, C Major resolves to the pitches
\* 60, 64, 67, named C4, E4, G4.
C14_CMajorIsMiddleC ==
    (/\ engine_call.op = "generate_chord"
     /\ engine_call.root = "C" /\ engine_call.chord_type = "Major")
    => /\ engine_call.status = 200
       /\ engine_call.midi_notes = <<60, 64, 67>>
       /\ engine_call.note_names = <<"C4", "E4", "G4">>

\* C15: for each of the twelve sharp-spelled roots and every registered
\* chord type, the name of the first pitch of the chord at base octave 4 is
\* the root followed by "4".
C15_RootNameRoundTrip ==
    (/\ engine_call.op = "generate_chord"
     /\ engine_call.root \in get_available_roots
     /\ engine_call.chord_type \in DOMAIN CHORD_TYPES)
    => /\ engine_call.status = 200
       /\ engine_call.note_names[1] = engine_call.root \o "4"

\* semitones of the natural notes above C
C16_Natural ==
    ("C" :> 0) @@ ("D" :> 2) @@ ("E" :> 4) @@ ("F" :> 5) @@ ("G" :> 7) @@
    ("A" :> 9) @@ ("B" :> 11)

\* the roots of the data model: a natural note, sharpened or flattened
C16_Roots ==
    {"C", "C#", "Db", "D", "D#", "Eb", "E", "F", "F#", "Gb", "G", "G#", "Ab",
     "A", "A#", "Bb", "B"}

\* the pitch class of a root: a sharp raises and a flat lowers its natural
\* note by a semitone, so that C# and Db, D# and Eb, ... coincide
C16_RootValue(root) ==
    CHOOSE v \in 0..11 :
        \E n \in DOMAIN C16_Natural :
            \/ root = n /\ v = C16_Natural[n]
            \/ root = n \o "#" /\ v = C16_Natural[n] + 1
            \/ root = n \o "b" /\ v = C16_Natural[n] - 1

C17_ShutdownSilences ==
    down => /\ ~is_playing
            /\ "stop_all_notes" \in Range(shutdown_calls)
            /\ "cleanup" \in Range(shutdown_calls)
            /\ fs # "live"

\* C18: a pass in progress is not rescaled.  The schedule of a pass stays as
\* it was built until the pass is over, every entry is given to play_chord
\* with the duration its schedule entry holds, and every duration of a
\* schedule comes from a tempo in effect since its pass began: a tempo set
\* during a pass is the tempo of the next pass, an earlier one never again.
C18_TempoFromNextPass ==
    /\ [](\A w \in Workers : \A n \in 1..Len(th[w].schedule) :
            \E spb \in hist[w].tempi :
                th[w].schedule[n][2] = th[w].progression[n].beats * spb)
    /\ [][\A w \in Workers :
            /\ (/\ th[w].pc \in {"for", "play", "sleep"}
                /\ th'[w].pc \in {"for", "play", "sleep", "loopcheck"})
               => th'[w].schedule = th[w].schedule
            /\ (th[w].pc = "for" /\ th'[w].pc = "play")
               => th'[w].duration = th[w].schedule[th[w].i][2]
            /\ (th[w].pc = "play" /\ th'[w].pc = "sleep")
               => hist'[w].slept = Append(hist[w].slept, th[w].duration)]_vars

\* C18 witness: a session started at 60 BPM had its tempo set to 300 after
\* its first schedule was built; it sounded both entries of the first pass
\* at 60 BPM and sounds the first entry of the second pass at 300 BPM.
C18_Witness ==
    \E w \in Workers :
        /\ th[w].pc = "sleep" /\ th[w].passes = 2
        /\ hist[w].slept = <<2000, 1000, 400>>
        /\ hist[w].tempi = {200}
        /\ seconds_per_beat = 200

\* the worker created by the latest successful start
C19_Latest ==
    CHOOSE w \in Workers : Allocated(w) /\ \A v \in Workers : Allocated(v) => v <= w

\* C19: is_playing goes from true to false only in a successful stop, in
\* the shutdown event, or in the cleanup of the loop that the latest
\* successful start launched.
C19_SessionEndedByOwnEvents ==
    [][(is_playing /\ ~is_playing')
       => \/ \E r \in Reqs : rpc[r] = "stop_wait" /\ rpc'[r] = "stop_silence"
          \/ ~down /\ down'
          \/ /\ th[C19_Latest].pc = "finally"
             /\ th'[C19_Latest].pc = "silence"]_vars

\* C20: in every schedule the durations are the beats times one and the
\* same seconds_per_beat.
C20_ScheduleTempoConsistent ==
    \A w \in Workers : \A n, k \in 1..Len(th[w].schedule) :
        th[w].schedule[n][2] * th[w].progression[k].beats
          = th[w].schedule[k][2] * th[w].progression[n].beats

C22_NoUseAfterRelease ==
    [][\A w \in Workers :
         (\/ th[w].pc = "play" /\ th'[w].pc # "play" /\ is_initialized
          \/ th[w].pc = "sleep" /\ th'[w].pc # "sleep" /\ th[w].real
          \/ th[w].pc = "silence" /\ th'[w].pc # "silence" /\ is_initialized)
         => fs = "live"]_vars

====
